---- MODULE Spec2Model ----
(***************************************************************************)
(* PulseBar (src/PulseBar.hpp, the throttle + EMA variant, lines 332-698): *)
(* progress bars that share one terminal.  Every thread of Bars owns one   *)
(* PulseBar instance and drives it through its public operations; the     *)
(* statements of an operation are separate steps, so that the part played  *)
(* by global_mtx_ is visible.                                              *)
(*                                                                         *)
(* Time is counted in ticks of 50 ms: mininterval_ (0.1 s) is 2 ticks.     *)
(* Terminal rows are counted from the row the cursor is on when the first  *)
(* instance is constructed (row 0), growing downwards.                     *)
(***************************************************************************)
EXTENDS Integers, Sequences, FiniteSets, TLC

\* ------------------------------------------------------------------ bounds
NumBars == 2        \* threads, each owning one instance
MaxOps == 2         \* public calls made on the instances, all together
MaxTime == 4        \* ticks the clock may advance
TotalArg == 2       \* constructor argument total
WidthArg == 4       \* constructor argument width
MaxTotal == 100     \* largest total of the single-render scenario
MaxRateTime == 8    \* ticks the clock may advance in the constant-rate scenario
MaxSeconds == 3     \* latest update of the time-suffix scenario, in seconds

Bars == 1..NumBars
Labels == {"Progress", "Loading"}
UpdateArgs == (0 - 1)..(TotalArg + 1)
MaxRow == NumBars + MaxOps
NoRow == 0 - 1
Blank == [bar |-> 0]      \* an empty terminal row; no frame

\* ---------------------------------------------------------- program state
VARIABLES
    pc,                 \* position of each thread
    ret,                \* caller of update: "top", "complete" or "setLabel"
    arg_now,            \* update's parameter now
    arg_force,          \* update's parameter force_complete
    elapsed,            \* update's local elapsed
    delta_now,          \* update's local delta_now
    delta_time,         \* update's local delta_time
    total_, width_, start_time_, label_, line_index_, now_,
    bracket_callback_,             \* the callback stored, by name
    avg_time_,                     \* EMA of ticks per unit, a fraction <<n, d>>
    last_print_time_, last_print_now_,
    mtx_owner, mtx_count,          \* global_mtx_ (recursive)
    global_next_line_index,        \* function-local static of initializeLineIndex
    next_line_index_,              \* static atomic member
    clock,                         \* high_resolution_clock, in ticks
    color_call,                    \* the caller's call of ColorUtils::getAnsiCode
    cursor_row, cursor_col0, screen,   \* the terminal
\* ------------------------------------------------------- history variables
    ncalls,             \* public calls begun so far
    wrote,              \* a frame was written during the call in progress
    lastFrame,          \* the most recent frame written by the instance
    lastRow,            \* the terminal row that frame was written on
    completed,          \* complete() has returned at least once
    again,              \* the complete() in progress began on a completed instance at total_
    order,              \* instances in the order they reserved a line
    ctor_nl,            \* newlines written by the instance's constructor
    dtor_cr             \* the destructor wrote the "\r" of its if

locals == <<ret, arg_now, arg_force, elapsed, delta_now, delta_time>>
config == <<total_, width_, start_time_, bracket_callback_>>
throttle == <<last_print_time_, last_print_now_>>
inst == <<config, label_, line_index_, now_, avg_time_, throttle>>
mtx == <<mtx_owner, mtx_count>>
counters == <<global_next_line_index, next_line_index_>>
term == <<cursor_row, cursor_col0, screen>>
frames == <<wrote, lastFrame, lastRow>>
ctors == <<order, ctor_nl>>
hist == <<ncalls, frames, completed, again, ctors, dtor_cr>>
vars == <<pc, locals, inst, mtx, counters, clock, color_call, term, hist>>

\* ------------------------------------------------------- program constants
mininterval_ == 2
miniters_ == 1
DefaultWidth == 50      \* int width = 50

\* ------------------------------------------------------------ pure helpers
Min(a, b) == IF a < b THEN a ELSE b
Max(a, b) == IF a > b THEN a ELSE b

\* a quotient rounded to the nearest integer instead
TruncDiv_nearest(a, b) ==
    IF (a >= 0) = (b > 0)
    THEN (2 * (IF a >= 0 THEN a ELSE 0 - a) + (IF b > 0 THEN b ELSE 0 - b))
            \div (2 * (IF b > 0 THEN b ELSE 0 - b))
    ELSE 0 - ((2 * (IF a >= 0 THEN a ELSE 0 - a) + (IF b > 0 THEN b ELSE 0 - b))
                \div (2 * (IF b > 0 THEN b ELSE 0 - b)))

\* C++ integer division and static_cast<int> of a quotient: toward zero
TruncDiv(a, b) ==
    IF (a >= 0) = (b > 0) THEN (IF a >= 0 THEN a ELSE 0 - a) \div (IF b > 0 THEN b ELSE 0 - b)
    ELSE 0 - ((IF a >= 0 THEN a ELSE 0 - a) \div (IF b > 0 THEN b ELSE 0 - b))

\* i >= u where i is an int and u an unsigned: i is converted to unsigned, that
\* is i + 2^32 when i < 0.  Written with 2^30 so that no intermediate value
\* leaves the 32-bit range (u < 2^31).
UnsignedGE(i, u) ==
    IF i >= 0 THEN i >= u
    ELSE ((i + 2 ^ 30) + 2 ^ 30) >= ((u - 2 ^ 30) - 2 ^ 30)

\* the percentage taken of total + 1 steps
calculatePercent_offByOne(now, total) == TruncDiv(now * 100, total + 1)

calculatePercent(now, total) == TruncDiv(now * 100, total)

calculateFilledWidth(now, width, total) == TruncDiv(now * width, total)

\* the loop of buildProgressBar shows the animation glyph in column filled
hasAnimationColumn(now, filled, width, total) ==
    \E i \in 0..(width - 1) : i = filled /\ now < total

\* ------------------------------------------------------------ ColorUtils
\* An escape sequence "\033[p1;p2;...m" is kept as its parameters <<p1, p2, ...>>.
ColorType == {"RED", "GREEN", "YELLOW", "BLUE", "MAGENTA", "CYAN", "WHITE", "GRAY",
              "BRIGHT_RED", "BRIGHT_GREEN", "BRIGHT_YELLOW", "BRIGHT_BLUE",
              "BRIGHT_MAGENTA", "BRIGHT_CYAN", "BRIGHT_WHITE", "RESET", "HEX"}

colorMap ==
    [type \in ColorType \ {"HEX"} |->
        CASE type = "RED" -> <<31>>
          [] type = "GREEN" -> <<32>>
          [] type = "YELLOW" -> <<33>>
          [] type = "BLUE" -> <<34>>
          [] type = "MAGENTA" -> <<35>>
          [] type = "CYAN" -> <<36>>
          [] type = "WHITE" -> <<37>>
          [] type = "GRAY" -> <<90>>
          [] type = "BRIGHT_RED" -> <<1, 31>>
          [] type = "BRIGHT_GREEN" -> <<1, 32>>
          [] type = "BRIGHT_YELLOW" -> <<1, 33>>
          [] type = "BRIGHT_BLUE" -> <<1, 34>>
          [] type = "BRIGHT_MAGENTA" -> <<1, 35>>
          [] type = "BRIGHT_CYAN" -> <<1, 36>>
          [] type = "BRIGHT_WHITE" -> <<1, 37>>
          [] type = "RESET" -> <<0>>]

\* the outcome of a call: it returned a code or threw an exception
Returned(code) == [outcome |-> "returned", code |-> code]
Thrown(exception) == [outcome |-> exception, code |-> <<>>]

\* getAnsiCode(ColorType): colorMap.at(type) throws std::out_of_range for a
\* key the map does not hold
getAnsiCode(type) ==
    IF type \in DOMAIN colorMap THEN Returned(colorMap[type])
    ELSE Thrown("out_of_range")

\* the characters hex colour strings are made of here: '#', two hexadecimal
\* digits and a letter that is not one
HexAlphabet == {"#", "0", "F", "G"}

isxdigit(c) == c \in {"0", "F"}

DigitValue(c) == IF c = "F" THEN 15 ELSE 0

\* std::stoi(hexColor.substr(pos, 2), nullptr, 16): the longest prefix of
\* hexadecimal digits is converted, what follows it is ignored;
\* std::invalid_argument when the first character is no digit
stoi16(str) ==
    IF ~isxdigit(str[1]) THEN Thrown("invalid_argument")
    ELSE IF isxdigit(str[2]) THEN Returned(<<16 * DigitValue(str[1]) + DigitValue(str[2])>>)
    ELSE Returned(<<DigitValue(str[1])>>)

\* getAnsiCode(const std::string& hexColor)
getAnsiCodeHex(hexColor) ==
    IF Len(hexColor) # 7 \/ hexColor[1] # "#" THEN Thrown("invalid_argument")
    ELSE IF stoi16(SubSeq(hexColor, 2, 3)).outcome # "returned"
            \/ stoi16(SubSeq(hexColor, 4, 5)).outcome # "returned"
            \/ stoi16(SubSeq(hexColor, 6, 7)).outcome # "returned"
         THEN Thrown("invalid_argument")
    ELSE Returned(<<38, 2>> \o stoi16(SubSeq(hexColor, 2, 3)).code
                   \o stoi16(SubSeq(hexColor, 4, 5)).code
                   \o stoi16(SubSeq(hexColor, 6, 7)).code)

\* no call of getAnsiCode by the caller
NoCall == [overload |-> "none", type |-> "RESET", hexColor |-> <<>>,
           outcome |-> "none", code |-> <<>>]

\* ------------------------------------------------------------- the EMA
\* avg_time_ and the rates are doubles in the code; here exact fractions
\* <<n, d>> of ticks per unit, in lowest terms, d > 0
Abs(a) == IF a < 0 THEN 0 - a ELSE a

RECURSIVE GCD(_, _)
GCD(a, b) == IF b = 0 THEN a ELSE GCD(b, a % b)

\* n / d for d # 0, the sign kept in the numerator
Fraction(n, d) ==
    IF n = 0 THEN <<0, 1>>
    ELSE <<(IF d < 0 THEN 0 - n ELSE n) \div GCD(Abs(n), Abs(d)),
           Abs(d) \div GCD(Abs(n), Abs(d))>>

Zero == Fraction(0, 1)

\* smoothing_(0.3f)
smoothing_ == Fraction(3, 10)

\* the average added in full: smoothing_ * current_rate + avg
Smoothed_fullAverage(current_rate, avg) ==
    Fraction(smoothing_[1] * current_rate[1] * avg[2]
               + smoothing_[2] * avg[1] * current_rate[2],
             smoothing_[2] * current_rate[2] * avg[2])

\* smoothing_ * current_rate + (1 - smoothing_) * avg
Smoothed(current_rate, avg) ==
    Fraction(smoothing_[1] * current_rate[1] * avg[2]
               + (smoothing_[2] - smoothing_[1]) * avg[1] * current_rate[2],
             smoothing_[2] * current_rate[2] * avg[2])

\* the EMA block taking every observation with delta_it # 0
AvgTimeAfter_anyDelta(avg, now, delta_t, delta_it) ==
    IF now > 0 /\ delta_t > 0 /\ delta_it # 0
    THEN IF avg = Zero
         THEN Fraction(delta_t, delta_it)
         ELSE Smoothed(Fraction(delta_t, delta_it), avg)
    ELSE avg

\* avg_time_ after the block "if (now_ > 0) { ... }" of buildAndPrintProgress
AvgTimeAfter(avg, now, delta_t, delta_it) ==
    IF now > 0 /\ delta_t > 0 /\ delta_it > 0
    THEN IF avg = Zero
         THEN Fraction(delta_t, delta_it)
         ELSE Smoothed(Fraction(delta_t, delta_it), avg)
    ELSE avg

\* ... with delta_t and delta_it as buildAndPrintProgress(elapsed) computes them
updateAvgTime(t) ==
    AvgTimeAfter(avg_time_[t], now_[t],
                 elapsed[t] - last_print_time_[t], now_[t] - last_print_now_[t])

\* remaining of buildAndPrintProgress(elapsed): 0 unless now_ > 0, else
\* avg_time_ * total_ - elapsed, and 0 when that is negative
RemainingTime(avg, now, total, elapsed_time) ==
    IF now > 0 /\ avg[1] * total - elapsed_time * avg[2] > 0
    THEN Fraction(avg[1] * total - elapsed_time * avg[2], avg[2])
    ELSE Zero

Remaining(t) == RemainingTime(avg_time_[t], now_[t], total_[t], elapsed[t])

\* the callbacks an instance may hold: the constructor's default and the
\* three-band callback of example_custom_style
BracketCallbacks == {"default", "bands"}

\* bracket_callback_(percent).  The third pair of the three-band callback is
\* written "[[", "]]" here.
bracket_callback(callback, percent) ==
    IF callback = "default" THEN <<"[", "]">>
    ELSE IF percent < 30 THEN <<"<<", ">>">>
    ELSE IF percent < 70 THEN <<"{", "}">>
    ELSE <<"[[", "]]">>

\* the columns buildProgressBar appends between the brackets
buildProgressBar(now, filled, width, total) ==
    [i \in 0..(width - 1) |->
        IF i < filled THEN "filled"
        ELSE IF i = filled /\ now < total THEN "anim"
        ELSE "blank"]

\* mininterval_ is 0.1 s
TicksPerSecond == 10 * mininterval_

\* a time suffix whose value is the remaining time whether completed or not
buildTimeInfoImpl_remainingOnly(elapsed_time, is_completed, remaining) ==
    [prefix |-> IF is_completed THEN "Elapsed: " ELSE "ETA: ",
     seconds |-> TruncDiv(remaining[1], remaining[2] * TicksPerSecond)]

\* buildTimeInfoImpl with time_format_ empty, as the constructor leaves it:
\* "Elapsed: " or "ETA: ", then static_cast<int> of the seconds, then "s"
buildTimeInfoImpl(elapsed_time, is_completed, remaining) ==
    [prefix |-> IF is_completed THEN "Elapsed: " ELSE "ETA: ",
     seconds |-> IF is_completed
                 THEN TruncDiv(elapsed_time, TicksPerSecond)
                 ELSE TruncDiv(remaining[1], remaining[2] * TicksPerSecond)]

\* the frame, with the filled width handed to the bracket callback
Frame_filledToCallback(t) ==
    [bar |-> t,
     now |-> now_[t],
     percent |-> calculatePercent(now_[t], total_[t]),
     brackets |-> bracket_callback(bracket_callback_[t],
                      calculateFilledWidth(now_[t], width_[t], total_[t])),
     body |-> buildProgressBar(now_[t],
                  calculateFilledWidth(now_[t], width_[t], total_[t]),
                  width_[t], total_[t]),
     filled |-> calculateFilledWidth(now_[t], width_[t], total_[t]),
     anim |-> hasAnimationColumn(now_[t],
                  calculateFilledWidth(now_[t], width_[t], total_[t]),
                  width_[t], total_[t]),
     remaining |-> Remaining(t),
     elapsed |-> elapsed[t],
     time |-> buildTimeInfoImpl(elapsed[t], now_[t] = total_[t], Remaining(t)),
     label |-> label_[t]]

\* the frame buildAndPrintProgress composes for instance t
Frame(t) ==
    [bar |-> t,
     now |-> now_[t],
     percent |-> calculatePercent(now_[t], total_[t]),
     brackets |-> bracket_callback(bracket_callback_[t],
                      calculatePercent(now_[t], total_[t])),
     body |-> buildProgressBar(now_[t],
                  calculateFilledWidth(now_[t], width_[t], total_[t]),
                  width_[t], total_[t]),
     filled |-> calculateFilledWidth(now_[t], width_[t], total_[t]),
     anim |-> hasAnimationColumn(now_[t],
                  calculateFilledWidth(now_[t], width_[t], total_[t]),
                  width_[t], total_[t]),
     remaining |-> Remaining(t),
     elapsed |-> elapsed[t],
     time |-> buildTimeInfoImpl(elapsed[t], now_[t] = total_[t], Remaining(t)),
     label |-> label_[t]]

\* the double threshold of update
GateAdmits(dt, dn) == dt >= mininterval_ /\ UnsignedGE(dn, miniters_)

\* ------------------------------------------------------------ the mutex
\* mtx_owner is the owning thread, 0 when the mutex is free
lockFree(t) == mtx_owner = 0 \/ mtx_owner = t

\* lock_guard that does not wait for the mutex
lock_guard_nowait(t) ==
    /\ mtx_owner' = t
    /\ mtx_count' = mtx_count + 1

lock_guard(t) ==
    /\ lockFree(t)
    /\ mtx_owner' = t
    /\ mtx_count' = mtx_count + 1

\* a release that leaves the mutex owned
unlock_keepsOwner(t) ==
    /\ mtx_count' = mtx_count - 1
    /\ mtx_owner' = mtx_owner

unlock(t) ==
    /\ mtx_count' = mtx_count - 1
    /\ mtx_owner' = IF mtx_count = 1 THEN 0 ELSE mtx_owner

\* ----------------------------------------------------------- the terminal
\* "\n": one row down, column 0
EmitNewline ==
    /\ cursor_row' = Min(cursor_row + 1, MaxRow)
    /\ cursor_col0' = TRUE
    /\ UNCHANGED screen

\* row reached by the vertical movement moveCursorToLine(target_line) emits
RowAfterMove(t, target_line) ==
    IF target_line > line_index_[t]
    THEN Min(cursor_row + (target_line - line_index_[t]), MaxRow)
    ELSE IF target_line < line_index_[t]
         THEN Max(cursor_row - (line_index_[t] - target_line), 0)
         ELSE cursor_row

\* a movement that takes the cursor to the row of the target line wherever
\* the cursor is
moveCursorToLine_fromCursor(t, target_line) ==
    /\ cursor_row' = target_line
    /\ line_index_' = [line_index_ EXCEPT ![t] = target_line]
    /\ cursor_col0' = TRUE
    /\ UNCHANGED screen

moveCursorToLine(t, target_line) ==
    /\ cursor_row' = RowAfterMove(t, target_line)
    /\ line_index_' = [line_index_ EXCEPT ![t] = target_line]
    /\ cursor_col0' = TRUE
    /\ UNCHANGED screen

\* no instance constructed yet
NoInstance ==
    /\ pc = [t \in Bars |-> "idle"]
    /\ ret = [t \in Bars |-> "top"]
    /\ arg_now = [t \in Bars |-> 0]
    /\ arg_force = [t \in Bars |-> FALSE]
    /\ elapsed = [t \in Bars |-> 0]
    /\ delta_now = [t \in Bars |-> 0]
    /\ delta_time = [t \in Bars |-> 0]
    /\ total_ = [t \in Bars |-> 0]
    /\ width_ = [t \in Bars |-> 0]
    /\ label_ = [t \in Bars |-> "Progress"]
    /\ start_time_ = [t \in Bars |-> 0]
    /\ line_index_ = [t \in Bars |-> 0]
    /\ now_ = [t \in Bars |-> 0]
    /\ bracket_callback_ = [t \in Bars |-> "default"]
    /\ avg_time_ = [t \in Bars |-> Zero]
    /\ last_print_time_ = [t \in Bars |-> 0]
    /\ last_print_now_ = [t \in Bars |-> 0]
    /\ mtx_owner = 0
    /\ mtx_count = 0
    /\ global_next_line_index = 0
    /\ next_line_index_ = 0
    /\ clock = 0
    /\ cursor_row = 0
    /\ cursor_col0 = TRUE
    /\ screen = [r \in 0..MaxRow |-> Blank]
    /\ ncalls = 0
    /\ wrote = [t \in Bars |-> FALSE]
    /\ lastFrame = [t \in Bars |-> Blank]
    /\ lastRow = [t \in Bars |-> NoRow]
    /\ completed = [t \in Bars |-> FALSE]
    /\ again = [t \in Bars |-> FALSE]
    /\ order = <<>>
    /\ ctor_nl = [t \in Bars |-> 0]
    /\ dtor_cr = [t \in Bars |-> FALSE]

Init ==
    /\ NoInstance
    /\ color_call = NoCall

\* the clock advances.  A critical section is short against a tick and reads
\* the clock only in its first statement, so ticks are taken between critical
\* sections.
Tick ==
    /\ clock < MaxTime
    /\ mtx_owner = 0
    /\ clock' = clock + 1
    /\ UNCHANGED <<pc, locals, inst, mtx, counters, term, hist, color_call>>

goto(t, label) == pc' = [pc EXCEPT ![t] = label]

\* a public call begins.  A call whose first statement is its lock_guard begins
\* with the step that acquires it.
Call(t) ==
    /\ pc[t] = "ready"
    /\ ncalls < MaxOps
    /\ ncalls' = ncalls + 1

\* a public call returns to the thread: update's parameters and locals are gone
Return(t) ==
    /\ goto(t, "ready")
    /\ ret' = [ret EXCEPT ![t] = "top"]
    /\ arg_now' = [arg_now EXCEPT ![t] = 0]
    /\ arg_force' = [arg_force EXCEPT ![t] = FALSE]
    /\ elapsed' = [elapsed EXCEPT ![t] = 0]
    /\ delta_now' = [delta_now EXCEPT ![t] = 0]
    /\ delta_time' = [delta_time EXCEPT ![t] = 0]
    /\ wrote' = [wrote EXCEPT ![t] = FALSE]
    /\ again' = [again EXCEPT ![t] = FALSE]

\* ------------------------------------------------------------ constructor
\* the member initialisers; enableAnsiTerminal does nothing outside Windows
PulseBar(t, total, width, label) ==
    /\ pc[t] = "idle"
    /\ total_' = [total_ EXCEPT ![t] = total]
    /\ width_' = [width_ EXCEPT ![t] = width]
    /\ label_' = [label_ EXCEPT ![t] = label]
    /\ start_time_' = [start_time_ EXCEPT ![t] = clock]
    /\ last_print_time_' = [last_print_time_ EXCEPT ![t] = 0]
    /\ last_print_now_' = [last_print_now_ EXCEPT ![t] = 0]
    /\ now_' = [now_ EXCEPT ![t] = 0]
    /\ bracket_callback_' = [bracket_callback_ EXCEPT ![t] = "default"]
    /\ avg_time_' = [avg_time_ EXCEPT ![t] = Zero]
    /\ goto(t, "init_lock")
    /\ UNCHANGED <<locals, line_index_, mtx, counters, clock, color_call, term, hist>>

\* initializeLineIndex that reserves its line without holding the mutex
initializeLineIndex_nolock(t) ==
    /\ pc[t] = "init_lock"
    /\ lock_guard_nowait(t)
    /\ goto(t, "init_read")
    /\ UNCHANGED <<locals, inst, counters, clock, color_call, term, hist>>

initializeLineIndex_lock(t) ==
    /\ pc[t] = "init_lock"
    /\ lock_guard(t)
    /\ goto(t, "init_read")
    /\ UNCHANGED <<locals, inst, counters, clock, color_call, term, hist>>

\* line_index_ = global_next_line_index++ : the read of the counter ...
initializeLineIndex_read(t) ==
    /\ pc[t] = "init_read"
    /\ line_index_' = [line_index_ EXCEPT ![t] = global_next_line_index]
    /\ goto(t, "init_inc")
    /\ UNCHANGED <<locals, config, label_, now_, avg_time_, throttle, mtx, counters,
                   clock, color_call, term, hist>>

\* ... and the write of the incremented value
initializeLineIndex_inc(t) ==
    /\ pc[t] = "init_inc"
    /\ global_next_line_index' = line_index_[t] + 1
    /\ order' = Append(order, t)
    /\ goto(t, "init_nl")
    /\ UNCHANGED <<locals, inst, mtx, next_line_index_, clock, color_call, term,
                   ncalls, frames, completed, again, ctor_nl, dtor_cr>>

\* if (line_index_ > 0) std::cout << "\n"; and the lock_guard's release
initializeLineIndex_newline(t) ==
    /\ pc[t] = "init_nl"
    /\ IF line_index_[t] > 0
       THEN /\ EmitNewline
            /\ ctor_nl' = [ctor_nl EXCEPT ![t] = @ + 1]
       ELSE UNCHANGED <<term, ctor_nl>>
    /\ unlock(t)
    /\ goto(t, "ready")
    /\ UNCHANGED <<locals, inst, counters, clock, color_call,
                   ncalls, frames, completed, again, order, dtor_cr>>

\* ----------------------------------------------------------------- update
\* a caller invokes update(now, force_complete)
update(t, now, force_complete) ==
    /\ Call(t)
    /\ arg_now' = [arg_now EXCEPT ![t] = now]
    /\ arg_force' = [arg_force EXCEPT ![t] = force_complete]
    /\ ret' = [ret EXCEPT ![t] = "top"]
    /\ lock_guard(t)
    /\ goto(t, "upd_gate")
    /\ UNCHANGED <<elapsed, delta_now, delta_time, inst, counters, clock, color_call,
                   term, frames, completed, again, ctors, dtor_cr>>

\* the lock_guard of the update that setLabel calls: global_mtx_ is re-entered
update_lock(t) ==
    /\ pc[t] = "upd_lock"
    /\ lock_guard(t)
    /\ goto(t, "upd_gate")
    /\ UNCHANGED <<locals, inst, counters, clock, color_call, term, hist>>

\* the value update stores in now_
StoredNow(now, force_complete, total) ==
    IF force_complete THEN total ELSE Min(now, total)

\* an update that records its value as printed even when the threshold
\* rejects it
update_gate_recordsThrottled(t) ==
    /\ pc[t] = "upd_gate"
    /\ now_' = [now_ EXCEPT ![t] = StoredNow(arg_now[t], arg_force[t], total_[t])]
    /\ elapsed' = [elapsed EXCEPT ![t] = clock - start_time_[t]]
    /\ delta_now' = [delta_now EXCEPT ![t] = now_'[t] - last_print_now_[t]]
    /\ delta_time' = [delta_time EXCEPT ![t] = elapsed'[t] - last_print_time_[t]]
    /\ goto(t, IF GateAdmits(delta_time'[t], delta_now'[t])
               THEN "rend_move" ELSE "upd_unlock")
    /\ last_print_now_' = [last_print_now_ EXCEPT ![t] = now_'[t]]
    /\ UNCHANGED <<ret, arg_now, arg_force, config, label_, line_index_, avg_time_,
                   last_print_time_, mtx, counters, clock, color_call, term, hist>>

\* now_, elapsed, the two deltas and the double threshold
update_gate(t) ==
    /\ pc[t] = "upd_gate"
    /\ now_' = [now_ EXCEPT ![t] = StoredNow(arg_now[t], arg_force[t], total_[t])]
    /\ elapsed' = [elapsed EXCEPT ![t] = clock - start_time_[t]]
    /\ delta_now' = [delta_now EXCEPT ![t] = now_'[t] - last_print_now_[t]]
    /\ delta_time' = [delta_time EXCEPT ![t] = elapsed'[t] - last_print_time_[t]]
    /\ goto(t, IF GateAdmits(delta_time'[t], delta_now'[t])
               THEN "rend_move" ELSE "upd_unlock")
    /\ UNCHANGED <<ret, arg_now, arg_force, config, label_, line_index_, avg_time_,
                   throttle, mtx, counters, clock, color_call, term, hist>>

\* buildAndPrintProgress up to moveCursorToLine(line_index_): the EMA of the
\* time per unit is brought up to date, then the cursor is moved
buildAndPrintProgress_move(t) ==
    /\ pc[t] = "rend_move"
    /\ moveCursorToLine(t, line_index_[t])
    /\ goto(t, "rend_clear")
    /\ avg_time_' = [avg_time_ EXCEPT ![t] = updateAvgTime(t)]
    /\ UNCHANGED <<locals, config, label_, now_, throttle, mtx, counters, clock, color_call,
                   hist>>

\* buildAndPrintProgress: std::cout << "\r\033[2K"
buildAndPrintProgress_clear(t) ==
    /\ pc[t] = "rend_clear"
    /\ screen' = [screen EXCEPT ![cursor_row] = Blank]
    /\ cursor_col0' = TRUE
    /\ goto(t, "rend_write")
    /\ UNCHANGED <<locals, inst, mtx, counters, clock, color_call, cursor_row, hist>>

\* buildAndPrintProgress: std::cout << bar << std::flush
buildAndPrintProgress_write(t) ==
    /\ pc[t] = "rend_write"
    /\ screen' = [screen EXCEPT ![cursor_row] = Frame(t)]
    /\ cursor_col0' = FALSE
    /\ wrote' = [wrote EXCEPT ![t] = TRUE]
    /\ lastFrame' = [lastFrame EXCEPT ![t] = Frame(t)]
    /\ lastRow' = [lastRow EXCEPT ![t] = cursor_row]
    /\ goto(t, "upd_record")
    /\ UNCHANGED <<locals, inst, mtx, counters, clock, color_call, cursor_row,
                   ncalls, completed, again, ctors, dtor_cr>>

\* an update that records its argument, not the value it stored and showed
update_record_argument(t) ==
    /\ pc[t] = "upd_record"
    /\ last_print_time_' = [last_print_time_ EXCEPT ![t] = elapsed[t]]
    /\ last_print_now_' = [last_print_now_ EXCEPT ![t] = arg_now[t]]
    /\ goto(t, "upd_unlock")
    /\ UNCHANGED <<locals, config, label_, line_index_, now_, avg_time_,
                   mtx, counters, clock, color_call, term, hist>>

\* last_print_time_ = elapsed; last_print_now_ = now_
update_record(t) ==
    /\ pc[t] = "upd_record"
    /\ last_print_time_' = [last_print_time_ EXCEPT ![t] = elapsed[t]]
    /\ last_print_now_' = [last_print_now_ EXCEPT ![t] = now_[t]]
    /\ goto(t, "upd_unlock")
    /\ UNCHANGED <<locals, config, label_, line_index_, now_, avg_time_,
                   mtx, counters, clock, color_call, term, hist>>

\* update releases its lock_guard and returns to its caller
update_return(t) ==
    /\ pc[t] = "upd_unlock"
    /\ unlock(t)
    /\ IF ret[t] = "top"
       THEN /\ Return(t)
            /\ UNCHANGED <<lastFrame, lastRow>>
       ELSE /\ goto(t, IF ret[t] = "complete" THEN "cmp_lock" ELSE "sl_unlock")
            /\ UNCHANGED <<locals, frames, again>>
    /\ UNCHANGED <<inst, counters, clock, color_call, term, ncalls, completed, ctors, dtor_cr>>

\* --------------------------------------------------------------- complete
\* a caller invokes complete(): update(total_, true) first
complete(t) ==
    /\ Call(t)
    /\ arg_now' = [arg_now EXCEPT ![t] = total_[t]]
    /\ arg_force' = [arg_force EXCEPT ![t] = TRUE]
    /\ ret' = [ret EXCEPT ![t] = "complete"]
    /\ again' = [again EXCEPT ![t] = completed[t] /\ now_[t] = total_[t]]
    /\ lock_guard(t)
    /\ goto(t, "upd_gate")
    /\ UNCHANGED <<elapsed, delta_now, delta_time, inst, counters, clock, color_call,
                   term, frames, completed, ctors, dtor_cr>>

complete_lock(t) ==
    /\ pc[t] = "cmp_lock"
    /\ lock_guard(t)
    /\ goto(t, "cmp_move")
    /\ UNCHANGED <<locals, inst, counters, clock, color_call, term, hist>>

\* a complete() that moves to the line below its own
complete_move_lineBelow(t) ==
    /\ pc[t] = "cmp_move"
    /\ moveCursorToLine(t, line_index_[t] + 1)
    /\ goto(t, "cmp_endl")
    /\ UNCHANGED <<locals, config, label_, now_, avg_time_, throttle, mtx, counters,
                   clock, color_call, hist>>

complete_move(t) ==
    /\ pc[t] = "cmp_move"
    /\ moveCursorToLine(t, line_index_[t])
    /\ goto(t, "cmp_endl")
    /\ UNCHANGED <<locals, config, label_, now_, avg_time_, throttle, mtx, counters,
                   clock, color_call, hist>>

\* std::cout << std::endl; and the lock_guard's release
complete_endl(t) ==
    /\ pc[t] = "cmp_endl"
    /\ EmitNewline
    /\ unlock(t)
    /\ completed' = [completed EXCEPT ![t] = TRUE]
    /\ Return(t)
    /\ UNCHANGED <<inst, counters, clock, color_call, ncalls, lastFrame, lastRow, ctors, dtor_cr>>

\* --------------------------------------------------------------- setLabel
\* a caller invokes setLabel(new_label): label_ = new_label; update(now_, false)
setLabel(t, new_label) ==
    /\ Call(t)
    /\ lock_guard(t)
    /\ label_' = [label_ EXCEPT ![t] = new_label]
    /\ arg_now' = [arg_now EXCEPT ![t] = now_[t]]
    /\ arg_force' = [arg_force EXCEPT ![t] = FALSE]
    /\ ret' = [ret EXCEPT ![t] = "setLabel"]
    /\ goto(t, "upd_lock")
    /\ UNCHANGED <<elapsed, delta_now, delta_time, config, line_index_, now_,
                   avg_time_, throttle, counters, clock, color_call, term, frames, completed,
                   again, ctors, dtor_cr>>

setLabel_return(t) ==
    /\ pc[t] = "sl_unlock"
    /\ unlock(t)
    /\ Return(t)
    /\ UNCHANGED <<inst, counters, clock, color_call, term, ncalls, lastFrame, lastRow,
                   completed, ctors, dtor_cr>>

\* ---------------------------------------------------------------- newline
\* a caller invokes the static newline()
newline(t) ==
    /\ Call(t)
    /\ lock_guard(t)
    /\ goto(t, "nl_body")
    /\ UNCHANGED <<locals, inst, counters, clock, color_call, term,
                   frames, completed, again, ctors, dtor_cr>>

\* std::cout << "\n"; next_line_index_++; and the lock_guard's release
newline_body(t) ==
    /\ pc[t] = "nl_body"
    /\ EmitNewline
    /\ next_line_index_' = next_line_index_ + 1
    /\ unlock(t)
    /\ goto(t, "ready")
    /\ UNCHANGED <<locals, inst, global_next_line_index, clock, color_call, hist>>

\* ------------------------------------------------------------- destructor
\* the instance goes out of scope
Destroy(t) ==
    /\ pc[t] = "ready"
    /\ lock_guard(t)
    /\ goto(t, "dt_move")
    /\ UNCHANGED <<locals, inst, counters, clock, color_call, term, hist>>

Destroy_move(t) ==
    /\ pc[t] = "dt_move"
    /\ moveCursorToLine(t, line_index_[t])
    /\ goto(t, "dt_clear")
    /\ UNCHANGED <<locals, config, label_, now_, avg_time_, throttle, mtx, counters,
                   clock, color_call, hist>>

\* "\033[2K", "\r" when line_index_ == next_line_index_ - 1, flush, release
Destroy_clear(t) ==
    /\ pc[t] = "dt_clear"
    /\ screen' = [screen EXCEPT ![cursor_row] = Blank]
    /\ cursor_col0' = IF line_index_[t] = next_line_index_ - 1 THEN TRUE ELSE cursor_col0
    /\ dtor_cr' = [dtor_cr EXCEPT ![t] = (line_index_[t] = next_line_index_ - 1)]
    /\ unlock(t)
    /\ goto(t, "dead")
    /\ UNCHANGED <<locals, inst, counters, clock, color_call, cursor_row,
                   ncalls, frames, completed, again, ctors>>

\* ------------------------------------------------------------------- Next
Next ==
    \/ Tick
    \/ \E t \in Bars : PulseBar(t, TotalArg, WidthArg, "Progress")
    \/ \E t \in Bars : initializeLineIndex_lock(t)
    \/ \E t \in Bars : initializeLineIndex_read(t)
    \/ \E t \in Bars : initializeLineIndex_inc(t)
    \/ \E t \in Bars : initializeLineIndex_newline(t)
    \/ \E t \in Bars, now \in UpdateArgs, force \in BOOLEAN : update(t, now, force)
    \/ \E t \in Bars : update_lock(t)
    \/ \E t \in Bars : update_gate(t)
    \/ \E t \in Bars : buildAndPrintProgress_move(t)
    \/ \E t \in Bars : buildAndPrintProgress_clear(t)
    \/ \E t \in Bars : buildAndPrintProgress_write(t)
    \/ \E t \in Bars : update_record(t)
    \/ \E t \in Bars : update_return(t)
    \/ \E t \in Bars : complete(t)
    \/ \E t \in Bars : complete_lock(t)
    \/ \E t \in Bars : complete_move(t)
    \/ \E t \in Bars : complete_endl(t)
    \/ \E t \in Bars, l \in Labels : setLabel(t, l)
    \/ \E t \in Bars : setLabel_return(t)
    \/ \E t \in Bars : newline(t)
    \/ \E t \in Bars : newline_body(t)
    \/ \E t \in Bars : Destroy(t)
    \/ \E t \in Bars : Destroy_move(t)
    \/ \E t \in Bars : Destroy_clear(t)

Spec == Init /\ [][Next]_vars

\* ------------------------------------------------------- fair scheduling
\* the steps of thread t inside an operation it has started
Step(t) ==
    \/ initializeLineIndex_lock(t)
    \/ initializeLineIndex_read(t)
    \/ initializeLineIndex_inc(t)
    \/ initializeLineIndex_newline(t)
    \/ update_lock(t)
    \/ update_gate(t)
    \/ buildAndPrintProgress_move(t)
    \/ buildAndPrintProgress_clear(t)
    \/ buildAndPrintProgress_write(t)
    \/ update_record(t)
    \/ update_return(t)
    \/ complete_lock(t)
    \/ complete_move(t)
    \/ complete_endl(t)
    \/ setLabel_return(t)
    \/ newline_body(t)
    \/ Destroy_move(t)
    \/ Destroy_clear(t)

\* A thread that can take its next step takes it eventually.  Whether and when
\* a thread calls an operation is left to it.  (Each thread makes finitely many
\* calls here, so a thread waiting for global_mtx_ is not overtaken for ever
\* and weak fairness is enough.)

\* the calls the threads make: every operation, update with one argument
NextFair ==
    \/ Tick
    \/ \E t \in Bars : PulseBar(t, TotalArg, WidthArg, "Progress")
    \/ \E t \in Bars, force \in BOOLEAN : update(t, TotalArg, force)
    \/ \E t \in Bars : complete(t)
    \/ \E t \in Bars, l \in Labels : setLabel(t, l)
    \/ \E t \in Bars : newline(t)
    \/ \E t \in Bars : Destroy(t)
    \/ \E t \in Bars : Step(t)

SpecFair == Init /\ [][NextFair]_vars /\ \A t \in Bars : WF_vars(Step(t))

\* ------------------------------------------- one instance, any configuration
\* The constructor takes any int for total and width: nothing is checked
\* between the member initialisers and initializeLineIndex.
ConfigArgs == (0 - 1)..(TotalArg + 1)

\* the thread that constructs the instance of this scenario
FirstBar == CHOOSE t \in Bars : \A u \in Bars : t <= u

\* buildAndPrintProgress on an instance with total_ = 0: calculatePercent
\* converts an infinite or NaN quotient to int and calculateFilledWidth divides
\* an int by zero.  The behaviour of the program is undefined from here on;
\* nothing is said about what follows.
buildAndPrintProgress_undefined(t) ==
    /\ pc[t] = "rend_move"
    /\ total_[t] = 0
    /\ goto(t, "undefined")
    /\ UNCHANGED <<locals, inst, mtx, counters, clock, color_call, term, hist>>

NextConfig ==
    \/ Tick
    \/ \E total \in ConfigArgs, width \in ConfigArgs :
          PulseBar(FirstBar, total, width, "Progress")
    \/ initializeLineIndex_lock(FirstBar)
    \/ initializeLineIndex_read(FirstBar)
    \/ initializeLineIndex_inc(FirstBar)
    \/ initializeLineIndex_newline(FirstBar)
    \/ \E now \in UpdateArgs, force \in BOOLEAN : update(FirstBar, now, force)
    \/ update_gate(FirstBar)
    \/ total_[FirstBar] # 0 /\ buildAndPrintProgress_move(FirstBar)
    \/ buildAndPrintProgress_undefined(FirstBar)
    \/ buildAndPrintProgress_clear(FirstBar)
    \/ buildAndPrintProgress_write(FirstBar)
    \/ update_record(FirstBar)
    \/ update_return(FirstBar)

SpecConfig == Init /\ [][NextConfig]_vars

\* --------------------------------------------------- one update, one render
\* One instance with any total, a width and a bracket callback; update(now) has
\* been called 0.1 s after the construction and holds the mutex.
RenderWidths == (1..WidthArg) \cup {DefaultWidth}

InitRenderAt(totals, widths, time) ==
    \E total \in totals, width \in widths, callback \in BracketCallbacks :
      \E now \in (0 - 1)..(total + 1) :
        /\ pc = [t \in Bars |-> IF t = FirstBar THEN "upd_gate" ELSE "idle"]
        /\ ret = [t \in Bars |-> "top"]
        /\ arg_now = [t \in Bars |-> IF t = FirstBar THEN now ELSE 0]
        /\ arg_force = [t \in Bars |-> FALSE]
        /\ elapsed = [t \in Bars |-> 0]
        /\ delta_now = [t \in Bars |-> 0]
        /\ delta_time = [t \in Bars |-> 0]
        /\ total_ = [t \in Bars |-> IF t = FirstBar THEN total ELSE 0]
        /\ width_ = [t \in Bars |-> IF t = FirstBar THEN width ELSE 0]
        /\ label_ = [t \in Bars |-> "Progress"]
        /\ start_time_ = [t \in Bars |-> 0]
        /\ line_index_ = [t \in Bars |-> 0]
        /\ now_ = [t \in Bars |-> 0]
        /\ bracket_callback_ = [t \in Bars |-> IF t = FirstBar THEN callback ELSE "default"]
        /\ avg_time_ = [t \in Bars |-> Zero]
        /\ last_print_time_ = [t \in Bars |-> 0]
        /\ last_print_now_ = [t \in Bars |-> 0]
        /\ mtx_owner = FirstBar
        /\ mtx_count = 1
        /\ global_next_line_index = 1
        /\ next_line_index_ = 0
        /\ clock = time
        /\ color_call = NoCall
        /\ cursor_row = 0
        /\ cursor_col0 = TRUE
        /\ screen = [r \in 0..MaxRow |-> Blank]
        /\ ncalls = 1
        /\ wrote = [t \in Bars |-> FALSE]
        /\ lastFrame = [t \in Bars |-> Blank]
        /\ lastRow = [t \in Bars |-> NoRow]
        /\ completed = [t \in Bars |-> FALSE]
        /\ again = [t \in Bars |-> FALSE]
        /\ order = <<FirstBar>>
        /\ ctor_nl = [t \in Bars |-> 0]
        /\ dtor_cr = [t \in Bars |-> FALSE]

InitRender == InitRenderAt(1..MaxTotal, RenderWidths, mininterval_)

NextRender ==
    \/ update_gate(FirstBar)
    \/ buildAndPrintProgress_move(FirstBar)
    \/ buildAndPrintProgress_clear(FirstBar)
    \/ buildAndPrintProgress_write(FirstBar)
    \/ update_record(FirstBar)
    \/ update_return(FirstBar)

SpecRender == InitRender /\ [][NextRender]_vars

\* ------------------------------------------ one render, seconds after start
\* The single update is called at any time from 0.1 s to MaxSeconds seconds
\* after the construction, so that the time suffix shows whole seconds.
InitSuffix ==
    \E time \in mininterval_..(MaxSeconds * TicksPerSecond) :
        InitRenderAt(1..(TotalArg + 2), {WidthArg}, time)

SpecSuffix == InitSuffix /\ [][NextRender]_vars

\* ------------------------------------------------ updates at a constant rate
\* One instance whose caller, like the loops of the examples, calls update at
\* least 0.1 s after the previous one and with progress growing in step with
\* the time: every update lies on one line through the construction, so every
\* observation of the EMA has the same rate.
TickRate ==
    /\ clock < MaxRateTime
    /\ mtx_owner = 0
    /\ clock' = clock + 1
    /\ UNCHANGED <<pc, locals, inst, mtx, counters, term, hist, color_call>>

updateAtRate(t, now) ==
    /\ pc[t] = "ready"
    /\ (clock - start_time_[t]) - last_print_time_[t] >= mininterval_
    /\ now > last_print_now_[t]
    /\ now <= total_[t]
    /\ last_print_now_[t] > 0
       => ((clock - start_time_[t]) - last_print_time_[t]) * last_print_now_[t]
             = (now - last_print_now_[t]) * last_print_time_[t]
    /\ ncalls' = ncalls + 1
    /\ arg_now' = [arg_now EXCEPT ![t] = now]
    /\ arg_force' = [arg_force EXCEPT ![t] = FALSE]
    /\ ret' = [ret EXCEPT ![t] = "top"]
    /\ lock_guard(t)
    /\ goto(t, "upd_gate")
    /\ UNCHANGED <<elapsed, delta_now, delta_time, inst, counters, clock, color_call,
                   term, frames, completed, again, ctors, dtor_cr>>

NextRate ==
    \/ TickRate
    \/ PulseBar(FirstBar, MaxTotal, WidthArg, "Progress")
    \/ initializeLineIndex_lock(FirstBar)
    \/ initializeLineIndex_read(FirstBar)
    \/ initializeLineIndex_inc(FirstBar)
    \/ initializeLineIndex_newline(FirstBar)
    \/ \E now \in 1..(2 * MaxRateTime) : updateAtRate(FirstBar, now)
    \/ update_gate(FirstBar)
    \/ buildAndPrintProgress_move(FirstBar)
    \/ buildAndPrintProgress_clear(FirstBar)
    \/ buildAndPrintProgress_write(FirstBar)
    \/ update_record(FirstBar)
    \/ update_return(FirstBar)

SpecRate == Init /\ [][NextRate]_vars

\* ------------------------------------------ one instance, used in its scope
\* One thread constructs an instance, uses it, may end its use with complete()
\* and lets it go out of scope; no other instance exists.
NextScoped ==
    \/ Tick
    \/ PulseBar(FirstBar, TotalArg, WidthArg, "Progress")
    \/ initializeLineIndex_lock(FirstBar)
    \/ initializeLineIndex_read(FirstBar)
    \/ initializeLineIndex_inc(FirstBar)
    \/ initializeLineIndex_newline(FirstBar)
    \/ \E now \in UpdateArgs, force \in BOOLEAN :
          ~completed[FirstBar] /\ update(FirstBar, now, force)
    \/ update_lock(FirstBar)
    \/ update_gate(FirstBar)
    \/ buildAndPrintProgress_move(FirstBar)
    \/ buildAndPrintProgress_clear(FirstBar)
    \/ buildAndPrintProgress_write(FirstBar)
    \/ update_record(FirstBar)
    \/ update_return(FirstBar)
    \/ ~completed[FirstBar] /\ complete(FirstBar)
    \/ complete_lock(FirstBar)
    \/ complete_move(FirstBar)
    \/ complete_endl(FirstBar)
    \/ \E l \in Labels : ~completed[FirstBar] /\ setLabel(FirstBar, l)
    \/ setLabel_return(FirstBar)
    \/ ~completed[FirstBar] /\ newline(FirstBar)
    \/ newline_body(FirstBar)
    \/ Destroy(FirstBar)
    \/ Destroy_move(FirstBar)
    \/ Destroy_clear(FirstBar)

SpecScoped == Init /\ [][NextScoped]_vars

\* ------------------------------------------------------- calls of ColorUtils
\* The caller is about to call one of the two overloads of
\* ColorUtils::getAnsiCode, with any ColorType or with any string of 6 or 7
\* characters of HexAlphabet.
HexStrings == [1..6 -> HexAlphabet] \cup [1..7 -> HexAlphabet]

InitColor ==
    /\ NoInstance
    /\ \/ \E type \in ColorType :
             color_call = [overload |-> "ColorType", type |-> type, hexColor |-> <<>>,
                           outcome |-> "pending", code |-> <<>>]
       \/ \E hexColor \in HexStrings :
             color_call = [overload |-> "string", type |-> "HEX", hexColor |-> hexColor,
                           outcome |-> "pending", code |-> <<>>]

getAnsiCode_type ==
    /\ color_call.overload = "ColorType"
    /\ color_call.outcome = "pending"
    /\ color_call' = [color_call EXCEPT
                         !.outcome = getAnsiCode(color_call.type).outcome,
                         !.code = getAnsiCode(color_call.type).code]
    /\ UNCHANGED <<pc, locals, inst, mtx, counters, clock, term, hist>>

getAnsiCode_hexColor ==
    /\ color_call.overload = "string"
    /\ color_call.outcome = "pending"
    /\ color_call' = [color_call EXCEPT
                         !.outcome = getAnsiCodeHex(color_call.hexColor).outcome,
                         !.code = getAnsiCodeHex(color_call.hexColor).code]
    /\ UNCHANGED <<pc, locals, inst, mtx, counters, clock, term, hist>>

NextColor ==
    \/ getAnsiCode_type
    \/ getAnsiCode_hexColor

SpecColor == InitColor /\ [][NextColor]_vars

\* =================================================================== claims
CtorPcs == {"idle", "init_lock", "init_read", "init_inc", "init_nl"}
\* positions at which the thread holds global_mtx_
CriticalPcs == {"init_read", "init_inc", "init_nl", "upd_lock", "upd_gate",
                "rend_move", "rend_clear", "rend_write", "upd_record",
                "upd_unlock", "cmp_move", "cmp_endl", "sl_unlock", "nl_body",
                "dt_move", "dt_clear"}
\* positions whose next statement writes to the terminal
WritePcs == {"init_nl", "rend_move", "rend_clear", "rend_write", "cmp_move",
             "cmp_endl", "nl_body", "dt_move", "dt_clear"}
\* positions of complete() after its update(total_, true) has returned
AfterUpdatePcs == {"cmp_lock", "cmp_move", "cmp_endl"}

\* C1: with only constructions, update, setLabel and complete (no newline(), no
\* destruction), every frame an instance has written was written on the
\* terminal row of its own line_index_.  (Frames of a progress value in
\* [0, total], so that the case does not rest on the value.)
C1_FrameOnOwnLine ==
    \A t \in Bars :
        (/\ next_line_index_ = 0
         /\ \A u \in Bars : pc[u] \notin {"dt_move", "dt_clear", "dead"}
         /\ lastRow[t] # NoRow
         /\ lastFrame[t].now >= 0)
        => lastRow[t] = line_index_[t]

\* C2: when the update(total_, true) of complete() has returned, it has written
\* a frame, and that frame shows now = total.
C2_CompleteBypassesGate ==
    \A t \in Bars :
        pc[t] \in AfterUpdatePcs => (wrote[t] /\ lastFrame[t].now = total_[t])

\* C3: once complete() has done its update, the most recent frame of the
\* instance (if it ever wrote one, of a progress value in [0, total]) is the
\* full-progress frame: now = total, 100 percent, no animation column.
C3_FinalStateFlushed ==
    \A t \in Bars :
        (pc[t] \in AfterUpdatePcs /\ lastFrame[t] # Blank /\ lastFrame[t].now >= 0)
        => (lastFrame[t].now = total_[t] /\ lastFrame[t].percent = 100
            /\ ~lastFrame[t].anim)

\* C4: the current value of a constructed instance is always within [0, total].
C4_CurrentClamped ==
    \A t \in Bars : pc[t] # "idle" => (0 <= now_[t] /\ now_[t] <= total_[t])

\* C5: a non-forced update called by the user (here with a non-negative
\* argument, where clamping is not in question) has written a frame exactly
\* when delta_time >= mininterval_ and delta_now >= miniters_.
C5_RenderIffGate ==
    \A t \in Bars :
        (pc[t] = "upd_unlock" /\ ret[t] = "top" /\ ~arg_force[t] /\ arg_now[t] >= 0)
        => (wrote[t] <=> (delta_time[t] >= mininterval_ /\ delta_now[t] >= miniters_))

\* C6: when the update called by setLabel has returned, a frame showing the
\* new label has been written.
C6_SetLabelRenders ==
    \A t \in Bars :
        pc[t] = "sl_unlock" => (wrote[t] /\ lastFrame[t].label = label_[t])

\* C7: a thread that is about to write to the terminal owns global_mtx_ and no
\* other thread is inside a critical section.
C7_MutualExclusion ==
    \A t \in Bars :
        pc[t] \in WritePcs
        => (mtx_owner = t /\ \A u \in Bars \ {t} : pc[u] \notin CriticalPcs)

\* C7 witness: one thread is in the middle of a render while another waits for
\* the mutex.
C7_Witness ==
    \E t \in Bars, u \in Bars :
        t # u /\ pc[t] = "rend_write" /\ pc[u] \in {"init_lock", "cmp_lock"}

\* C8: no update() or setLabel() on an instance whose complete() has returned
\* writes a frame (whatever value in [0, total] the instance holds).
C8_NoRenderAfterComplete ==
    \A t \in Bars :
        (completed[t] /\ ret[t] # "complete" /\ now_[t] >= 0) => ~wrote[t]

\* C9: a step of a complete() that began on a completed instance at its
\* terminal value changes neither the terminal nor the instance nor the shared
\* counters.
C9_SecondCompleteNoOp ==
    [][\A t \in Bars : (again[t] /\ pc'[t] # pc[t]) => UNCHANGED <<term, inst, counters>>]_vars

\* C10: constructed instances hold pairwise different line indices, the k-th
\* instance to reserve a line holds index k-1, and a finished constructor has
\* written one newline unless it was the first to reserve.
C10_LineIndices ==
    /\ \A t \in Bars, u \in Bars :
          (t # u /\ pc[t] \notin {"idle", "init_lock", "init_read"}
                 /\ pc[u] \notin {"idle", "init_lock", "init_read"})
          => line_index_[t] # line_index_[u]
    /\ \A i \in 1..Len(order) : line_index_[order[i]] = i - 1
    /\ \A t \in Bars :
          pc[t] \notin CtorPcs => ctor_nl[t] = (IF order[1] = t THEN 0 ELSE 1)

\* C10 witness: every instance is constructed and one constructor wrote a newline.
C10_Witness ==
    /\ \A t \in Bars : pc[t] = "ready"
    /\ Len(order) = NumBars
    /\ \E t \in Bars : ctor_nl[t] = 1 /\ line_index_[t] = NumBars - 1

\* C11: an instance that reserves its line after k newline() calls (and after
\* Len(order) earlier reservations) gets line index Len(order) + k.
\* next_line_index_ counts the newline() calls made so far.
C11_NewlineAdvancesIndex ==
    \A t \in Bars :
        pc[t] = "init_inc" => line_index_[t] = Len(order) + next_line_index_

\* C12: the destructor's clearing step leaves every terminal row other than
\* the row of its own line_index_ that shows the frame of another, live
\* instance (of a progress value in [0, total]) as it is.
C12_DestroyKeepsOtherFrames ==
    [][\A t \in Bars :
          (pc[t] = "dt_clear" /\ pc'[t] = "dead")
          => \A r \in 0..MaxRow :
                (/\ r # line_index_[t]
                 /\ screen[r] # Blank
                 /\ screen[r].now >= 0
                 /\ screen[r].bar # t
                 /\ pc[screen[r].bar] \notin {"dt_move", "dt_clear", "dead"})
                => screen'[r] = screen[r]]_vars

\* positions inside buildAndPrintProgress
RenderPcs == {"rend_move", "rend_clear", "rend_write", "undefined"}

\* C13: an instance that is being rendered was constructed with total > 0 and
\* width > 0 (a construction with another configuration having been rejected).
\* Stated of instances holding a progress value >= 0, so that the case does not
\* rest on a negative value being stored.
C13_ConfigRejected ==
    \A t \in Bars :
        (pc[t] \in RenderPcs /\ now_[t] >= 0)
        => (total_[t] > 0 /\ width_[t] > 0)

\* C14: for an instance with total > 0 and every current in [0, total], the
\* percent is within [0, 100], does not decrease when current grows by one, and
\* is 100 at current = total; the frame just written shows that percent.
C14_PercentMonotone ==
    \A t \in Bars :
        (pc[t] = "upd_record" /\ total_[t] > 0)
        => /\ \A c \in 0..total_[t] :
                 /\ calculatePercent(c, total_[t]) >= 0
                 /\ calculatePercent(c, total_[t]) <= 100
           /\ \A c \in 0..(total_[t] - 1) :
                 calculatePercent(c, total_[t]) <= calculatePercent(c + 1, total_[t])
           /\ calculatePercent(total_[t], total_[t]) = 100
           /\ lastFrame[t].now = total_[t] => lastFrame[t].percent = 100
           /\ lastFrame[t].now >= 0
              => (lastFrame[t].percent >= 0 /\ lastFrame[t].percent <= 100)

\* C14 witness: a frame at current = total with total > 1 has been written, and
\* it shows 100 percent.
C14_Witness ==
    \E t \in Bars :
        /\ pc[t] = "upd_record"
        /\ total_[t] > 1
        /\ lastFrame[t].now = total_[t]
        /\ lastFrame[t].percent = 100

\* C15: every frame written shows a filled width within [0, width].
C15_FilledInRange ==
    \A t \in Bars :
        lastFrame[t] # Blank
        => (lastFrame[t].filled >= 0 /\ lastFrame[t].filled <= width_[t])

\* C16: the percent and the filled width of a frame (current >= 0) are the
\* quotients current*100/total and current*width/total cut to the integer below,
\* and the frame of total = 100, width = 50, current = 50 shows percent 50 and
\* filled 25.
C16_Truncation ==
    \A t \in Bars :
        (lastFrame[t] # Blank /\ lastFrame[t].now >= 0)
        => /\ lastFrame[t].percent * total_[t] <= lastFrame[t].now * 100
           /\ lastFrame[t].now * 100 < (lastFrame[t].percent + 1) * total_[t]
           /\ lastFrame[t].filled * total_[t] <= lastFrame[t].now * width_[t]
           /\ lastFrame[t].now * width_[t] < (lastFrame[t].filled + 1) * total_[t]
           /\ (total_[t] = 100 /\ width_[t] = 50 /\ lastFrame[t].now = 50)
              => (lastFrame[t].percent = 50 /\ lastFrame[t].filled = 25)

\* C16 witness: the frame of total = 100, width = 50, current = 50 has been
\* written.
C16_Witness ==
    \E t \in Bars :
        /\ lastFrame[t] # Blank
        /\ total_[t] = 100 /\ width_[t] = 50 /\ lastFrame[t].now = 50
        /\ lastFrame[t].percent = 50 /\ lastFrame[t].filled = 25

\* C17: the bar body of every frame written has exactly width columns; the
\* columns left of filled are filled, the animation glyph is shown in at most
\* one column, the column filled, and in one exactly when current < total, the
\* other columns are blank; at current = total all width columns are filled.
C17_BarBody ==
    \A t \in Bars :
        lastFrame[t] # Blank
        => /\ DOMAIN lastFrame[t].body = 0..(width_[t] - 1)
           /\ \A i \in DOMAIN lastFrame[t].body :
                 /\ i < lastFrame[t].filled => lastFrame[t].body[i] = "filled"
                 /\ lastFrame[t].body[i] = "anim" => i = lastFrame[t].filled
                 /\ i > lastFrame[t].filled => lastFrame[t].body[i] = "blank"
           /\ (\E i \in DOMAIN lastFrame[t].body : lastFrame[t].body[i] = "anim")
              <=> lastFrame[t].now < total_[t]
           /\ lastFrame[t].now = total_[t]
              => \A i \in DOMAIN lastFrame[t].body : lastFrame[t].body[i] = "filled"

\* C18: the delimiters of every frame written are those the instance's bracket
\* callback gives for the frame's percent: "[" and "]" by default; with the
\* three-band callback the first pair while current*100/total < 30, the second
\* while it is < 70, the third from 70 on.  At total = 100: current 29 has the
\* first pair, 30 and 69 the second, 70 the third.
C18_Brackets ==
    \A t \in Bars :
        lastFrame[t] # Blank
        => /\ bracket_callback_[t] = "default" => lastFrame[t].brackets = <<"[", "]">>
           /\ bracket_callback_[t] = "bands"
              => lastFrame[t].brackets =
                    (IF lastFrame[t].now * 100 < 30 * total_[t] THEN <<"<<", ">>">>
                     ELSE IF lastFrame[t].now * 100 < 70 * total_[t] THEN <<"{", "}">>
                     ELSE <<"[[", "]]">>)
           /\ (bracket_callback_[t] = "bands" /\ total_[t] = 100)
              => /\ lastFrame[t].now = 29 => lastFrame[t].brackets = <<"<<", ">>">>
                 /\ lastFrame[t].now \in {30, 69} => lastFrame[t].brackets = <<"{", "}">>
                 /\ lastFrame[t].now = 70 => lastFrame[t].brackets = <<"[[", "]]">>

\* C18 witness: with the three-band callback and total = 100, the frame of
\* current = 69 has been written with the second pair.
C18_Witness ==
    \E t \in Bars :
        /\ bracket_callback_[t] = "bands"
        /\ total_[t] = 100
        /\ lastFrame[t] # Blank
        /\ lastFrame[t].now = 69
        /\ lastFrame[t].brackets = <<"{", "}">>

\* C19: a render whose deltas against the previous render (last_print_time_,
\* last_print_now_) are both > 0 sets avg_time_ to delta_t / delta_it when
\* avg_time_ holds no observation yet (it is 0), and to
\* smoothing * (delta_t / delta_it) + (1 - smoothing) * avg_time_ otherwise.
C19_RateUpdate ==
    [][\A t \in Bars :
          (/\ pc[t] = "rend_move" /\ pc'[t] = "rend_clear"
           /\ elapsed[t] - last_print_time_[t] > 0
           /\ now_[t] - last_print_now_[t] > 0)
          => avg_time_'[t] =
                (IF avg_time_[t] = Zero
                 THEN Fraction(elapsed[t] - last_print_time_[t],
                               now_[t] - last_print_now_[t])
                 ELSE Smoothed(Fraction(elapsed[t] - last_print_time_[t],
                                        now_[t] - last_print_now_[t]),
                               avg_time_[t]))]_vars

\* C20: a render whose delta_t or delta_it against the previous render is <= 0
\* leaves avg_time_ as it was.
C20_ObservationDiscarded ==
    [][\A t \in Bars :
          (/\ pc[t] = "rend_move" /\ pc'[t] = "rend_clear"
           /\ (\/ elapsed[t] - last_print_time_[t] <= 0
               \/ now_[t] - last_print_now_[t] <= 0))
          => avg_time_'[t] = avg_time_[t]]_vars

\* C20 witness: an instance whose avg_time_ holds an observation has gone
\* through the EMA block of a render with delta_it <= 0.
C20_Witness ==
    \E t \in Bars :
        /\ pc[t] = "rend_clear"
        /\ now_[t] - last_print_now_[t] <= 0
        /\ avg_time_[t] # Zero

\* a is within 1% of r (fractions, r > 0)
Within1Percent(a, r) ==
    100 * Abs(a[1] * r[2] - r[1] * a[2]) <= r[1] * a[2]

\* C21: with every rendered update at one rate r (the slope of the line from
\* the construction through the last render), avg_time_ is within 1% of r
\* after every render, from the first one on.
C21_RateConverges ==
    \A t \in Bars :
        (pc[t] \in {"upd_unlock", "ready"} /\ last_print_now_[t] > 0)
        => Within1Percent(avg_time_[t],
                          Fraction(last_print_time_[t], last_print_now_[t]))

\* C21 witness: three updates have been rendered at one rate that is not a
\* whole number of ticks per unit.
C21_Witness ==
    \E t \in Bars :
        /\ pc[t] = "ready"
        /\ ncalls >= 3
        /\ last_print_now_[t] > 0
        /\ avg_time_[t] = Fraction(last_print_time_[t], last_print_now_[t])
        /\ avg_time_[t][2] > 1

\* C22: the frame just written (of a progress value >= 0, by an instance with
\* total > 0 and width > 0) shows as remaining time avg_time_ * total - elapsed,
\* or 0 when that is negative.
C22_Remaining ==
    \A t \in Bars :
        (pc[t] = "upd_record" /\ now_[t] >= 0 /\ total_[t] > 0 /\ width_[t] > 0)
        => lastFrame[t].remaining =
              (IF avg_time_[t][1] * total_[t] - elapsed[t] * avg_time_[t][2] > 0
               THEN Fraction(avg_time_[t][1] * total_[t] - elapsed[t] * avg_time_[t][2],
                             avg_time_[t][2])
               ELSE Zero)

\* C23: a finished call of getAnsiCode(ColorType) has returned an escape
\* sequence, whatever the value of the enumeration.
C23_NamedColorTotal ==
    (color_call.overload = "ColorType" /\ color_call.outcome # "pending")
    => (color_call.outcome = "returned" /\ color_call.code # <<>>)

\* '#' followed by six hexadecimal digits
WellFormedHex(hexColor) ==
    /\ Len(hexColor) = 7
    /\ hexColor[1] = "#"
    /\ \A i \in 2..7 : isxdigit(hexColor[i])

\* C24: a finished call of getAnsiCode(hexColor) has thrown exactly when
\* hexColor is not '#' followed by six hexadecimal digits, and has otherwise
\* returned 38;2;r;g;b with the three byte values ("#FF00FF": 255, 0, 255).
C24_HexColor ==
    (color_call.overload = "string" /\ color_call.outcome # "pending")
    => /\ color_call.outcome = "returned" <=> WellFormedHex(color_call.hexColor)
       /\ WellFormedHex(color_call.hexColor)
          => color_call.code =
                <<38, 2,
                  16 * DigitValue(color_call.hexColor[2]) + DigitValue(color_call.hexColor[3]),
                  16 * DigitValue(color_call.hexColor[4]) + DigitValue(color_call.hexColor[5]),
                  16 * DigitValue(color_call.hexColor[6]) + DigitValue(color_call.hexColor[7])>>
       /\ color_call.hexColor = <<"#", "F", "F", "0", "0", "F", "F">>
          => color_call.code = <<38, 2, 255, 0, 255>>

\* C25: the cursor movement of a render of a progress value in [0, total]
\* (with only constructions, update, setLabel and complete so far) takes the cursor from the row it is on to the
\* row of the instance's line_index_; in particular the cursor stays where it
\* is only when it already is on that row.
C25_RenderMovesToOwnLine ==
    [][\A t \in Bars :
          (/\ pc[t] = "rend_move"
           /\ pc'[t] = "rend_clear"
           /\ now_[t] >= 0
           /\ next_line_index_ = 0
           /\ \A u \in Bars : pc[u] \notin {"dt_move", "dt_clear", "dead"})
          => cursor_row' = line_index_[t]]_vars

\* C26: the threshold of a non-forced update whose stored value (within
\* [0, total]) is lower than last_print_now_ does not admit a render, whatever
\* the elapsed time: update goes on to its return.
C26_NegativeDeltaThrottled ==
    [][\A t \in Bars :
          (/\ pc[t] = "upd_gate"
           /\ pc'[t] # pc[t]
           /\ ~arg_force[t]
           /\ now_'[t] >= 0
           /\ now_'[t] < last_print_now_[t])
          => pc'[t] = "upd_unlock"]_vars

\* the entry, the threshold and the return of an update that does not render
ThrottledStep(t) ==
    /\ pc'[t] # pc[t]
    /\ \/ pc[t] \in {"ready", "upd_lock"} /\ pc'[t] = "upd_gate"
       \/ pc[t] = "upd_gate" /\ pc'[t] = "upd_unlock"
       \/ pc[t] = "upd_unlock" /\ ~wrote[t]

\* C27: no step of an update that the threshold does not admit changes
\* last_print_time_, last_print_now_, avg_time_, label_ or line_index_ of the
\* instance (nor its total_ and width_), or the terminal and its cursor.
C27_ThrottledKeepsState ==
    [][\A t \in Bars :
          ThrottledStep(t)
          => /\ last_print_time_'[t] = last_print_time_[t]
             /\ last_print_now_'[t] = last_print_now_[t]
             /\ avg_time_'[t] = avg_time_[t]
             /\ label_'[t] = label_[t]
             /\ line_index_'[t] = line_index_[t]
             /\ total_'[t] = total_[t]
             /\ width_'[t] = width_[t]
             /\ UNCHANGED term]_vars

\* a throttled update has stored a value other than the last printed one
C27_Witness ==
    \E t \in Bars :
        /\ pc[t] = "upd_unlock"
        /\ ret[t] = "top"
        /\ ~wrote[t]
        /\ now_[t] # last_print_now_[t]
        /\ now_[t] = arg_now[t]

\* C28: between the final frame of complete() and its trailing newline (the
\* update of complete() has returned, the newline is not yet emitted) no other
\* thread changes the terminal.
C28_CompleteAtomic ==
    [][\A t \in Bars :
          (pc[t] = "cmp_lock" /\ pc'[t] = pc[t] /\ lastFrame[t] # Blank)
          => UNCHANGED term]_vars

\* C29: an instance, the only one, whose last call was complete() and which
\* has been destroyed: the row on which it wrote its last frame still shows
\* that frame.
C29_FinalFrameStays ==
    \A t \in Bars :
        (pc[t] = "dead" /\ completed[t] /\ lastFrame[t] # Blank)
        => (lastRow[t] # NoRow /\ screen[lastRow[t]] = lastFrame[t])

\* a destroyed instance whose complete() wrote the full-progress frame
C29_Witness ==
    \E t \in Bars :
        /\ pc[t] = "dead"
        /\ completed[t]
        /\ lastFrame[t] # Blank
        /\ lastFrame[t].now = total_[t]
        /\ lastFrame[t].percent = 100
        /\ cursor_row = lastRow[t] + 1

\* a thread outside every operation
RestPcs == {"idle", "ready", "dead"}

\* C30: under fair scheduling every operation a thread is in returns, and
\* global_mtx_ is free whenever no thread is in an operation.
C30_NoOperationBlocks ==
    /\ \A t \in Bars : (pc[t] \notin RestPcs) ~> (pc[t] \in RestPcs)
    /\ []((\A t \in Bars : pc[t] \in RestPcs) => (mtx_owner = 0 /\ mtx_count = 0))

\* setLabel has re-entered global_mtx_ through update while the other thread
\* waits for it
C30_Witness ==
    \E t \in Bars, u \in Bars :
        /\ pc[t] = "upd_gate"
        /\ ret[t] = "setLabel"
        /\ mtx_owner = t
        /\ mtx_count = 2
        /\ pc[u] \in {"init_lock", "cmp_lock"}

\* C31: no step of update, setLabel, complete, newline or the destructor
\* changes the line_index_ of a constructed instance.
C31_LineIndexFixed ==
    [][\A t \in Bars :
          pc[t] \notin CtorPcs => line_index_'[t] = line_index_[t]]_vars

\* an instance on the second line has rendered, completed and been destroyed:
\* moveCursorToLine has assigned to its line_index_ three times
C31_Witness ==
    \E t \in Bars :
        /\ pc[t] = "dead"
        /\ completed[t]
        /\ lastFrame[t] # Blank
        /\ line_index_[t] = 1

\* C32: the destructor of the instance that holds the most recently reserved
\* line index (the counter of initializeLineIndex less one) leaves the cursor
\* at column 0, and the destructor writes the "\r" of its if exactly for that
\* instance.
C32_ReleaseLastLine ==
    [][\A t \in Bars :
          (pc[t] = "dt_clear" /\ pc'[t] = "dead")
          => /\ line_index_[t] = global_next_line_index - 1 => cursor_col0'
             /\ dtor_cr'[t] <=> line_index_[t] = global_next_line_index - 1]_vars

\* C33: the time suffix of the frame just written is "Elapsed: " with the
\* whole seconds of the elapsed time exactly when now_ = total_, and "ETA: "
\* with the whole seconds of the frame's remaining time exactly when
\* now_ < total_.
C33_TimeSuffix ==
    \A t \in Bars :
        pc[t] = "upd_record"
        => /\ lastFrame[t].time.prefix = "Elapsed: " <=> now_[t] = total_[t]
           /\ lastFrame[t].time.prefix = "ETA: " <=> now_[t] < total_[t]
           /\ now_[t] = total_[t]
              => lastFrame[t].time.seconds = elapsed[t] \div TicksPerSecond
           /\ now_[t] < total_[t]
              => lastFrame[t].time.seconds =
                    lastFrame[t].remaining[1] \div (lastFrame[t].remaining[2] * TicksPerSecond)

\* an unfinished frame whose suffix shows a remaining time of other whole
\* seconds than the elapsed time
C33_Witness ==
    \E t \in Bars :
        /\ pc[t] = "upd_record"
        /\ now_[t] < total_[t]
        /\ lastFrame[t].time.prefix = "ETA: "
        /\ lastFrame[t].time.seconds > elapsed[t] \div TicksPerSecond
        /\ elapsed[t] \div TicksPerSecond > 0

\* C34: outside the two statements that follow a render, last_print_now_ is
\* the value shown in the most recent frame of the instance and
\* last_print_time_ the elapsed time of that frame (both 0 when it has written
\* none); the two change only in the step after a frame was written, and
\* last_print_time_ never decreases.
C34_ThrottleState ==
    /\ [](\A t \in Bars :
            pc[t] # "upd_record"
            => /\ last_print_now_[t] =
                     (IF lastFrame[t] = Blank THEN 0 ELSE lastFrame[t].now)
               /\ last_print_time_[t] =
                     (IF lastFrame[t] = Blank THEN 0 ELSE lastFrame[t].elapsed))
    /\ [][\A t \in Bars :
            /\ (last_print_now_'[t] # last_print_now_[t]
                \/ last_print_time_'[t] # last_print_time_[t])
               => (pc[t] = "upd_record" /\ wrote[t])
            /\ last_print_time_'[t] >= last_print_time_[t]]_vars

\* after a rendered update, a throttled one has stored another value
C34_Witness ==
    \E t \in Bars :
        /\ pc[t] = "ready"
        /\ lastFrame[t] # Blank
        /\ last_print_time_[t] > 0
        /\ last_print_now_[t] > 0
        /\ now_[t] # last_print_now_[t]

\* C35: the first frame of an instance is written by an update whose elapsed
\* time is at least mininterval_ and whose stored value is at least miniters_
\* (so a new instance, and update(0) on it, show nothing).
C35_FirstFrame ==
    [][\A t \in Bars :
          (lastFrame[t] = Blank /\ lastFrame'[t] # Blank)
          => (elapsed[t] >= mininterval_ /\ now_[t] >= miniters_)]_vars

====
